---- MODULE Spec2Model ----
(***************************************************************************)
(* Model of the s3select conformance harness of minio/mint:               *)
(*   run/core/s3select/csv.py    test_sql_api, the expectation matcher,    *)
(*                               and the table-driven tests that call it   *)
(*   run/core/s3select/utils.py  LogOutput, the structured test reporter   *)
(*   run/core/s3select/tests.py  main(), the driver of the s3select suite  *)
(*   Apps/minio-py, apps/minio-py, sdk_tests/minio_py                      *)
(*                               functional_test.py and its log_decorate   *)
(* The storage client (put_object, select_object_content, the result      *)
(* stream, remove_object) is the environment: each call either succeeds    *)
(* or raises.                                                              *)
(***************************************************************************)
EXTENDS Integers, Sequences, FiniteSets, TLC

\* ------------------------------------------------------------------ bounds
MaxLen == 2          \* longest expected_output byte string
MaxInputLen == 1     \* longest input_data byte string
MaxChunkLen == 1     \* longest chunk the result stream yields
MaxChunks == 2       \* most chunks the result stream yields
MaxIdx == 1          \* highest case index of a table
MaxClock == 2        \* last half millisecond the clock reaches
MaxRenders == 2      \* json_report calls on one LogOutput

ByteVals == {0, 1}

RECURSIVE SeqsUpTo(_, _)
SeqsUpTo(S, n) ==
    IF n = 0 THEN {<<>>}
    ELSE LET shorter == SeqsUpTo(S, n - 1)
         IN  shorter \cup {Append(s, x) : s \in {t \in shorter : Len(t) = n - 1}, x \in S}

\* ------------------------------------------------------- text and exceptions
\* A formatted text is the sequence of the pieces format() put into it: a
\* literal piece of text, or the repr of a bytes value.
Lit(s) == [k |-> "lit", s |-> s, b |-> <<>>]
BytesRepr(b) == [k |-> "bytes", s |-> "", b |-> b]

Names(text, piece) == \E i \in DOMAIN text : text[i] = piece

NoExc == [type |-> "None", template |-> "", msg |-> <<>>]
ClientError(text) == [type |-> "S3Error", template |-> "", msg |-> <<Lit(text)>>]
ValueError(template, msg) == [type |-> "ValueError", template |-> template, msg |-> msg]

\* str(exception): the text of its message
StrExc(e) == e.msg

ErrTexts == {"NoSuchKey", "timeout"}
ClientErrors == {ClientError(t) : t \in ErrTexts}

\* f'test_{idx}'
TestNameOf(idx) == <<"test_0", "test_1", "test_2", "test_3">>[idx + 1]

\* expected_output: a literal bytes value, or an Exception instance
ExpectBytes(b) == [isExc |-> FALSE, bytes |-> b]
ExpectException == [isExc |-> TRUE, bytes |-> <<>>]
IsException(expected) == expected.isExc

\* ------------------------------------------------------------ test_sql_api
VARIABLES
    pc,               \* position inside test_sql_api
    test_name, input_data, expected_output,   \* the arguments of the call
    object_name,      \* generate_object_name()
    objects,          \* the object names that exist in the bucket
    records,          \* the BytesIO the chunks are written to
    got_output,
    nChunks,          \* chunks read from the stream so far
    select_err,       \* the exception the except clause caught, or NoExc
    raised,           \* the exception the except/else clauses raised, or NoExc
    compared,         \* whether got_output != expected_output was evaluated
    outcome,          \* how the call ended: [exc, context]
    nPut, nSelect, nRemove,   \* calls made to the client so far
    remove_err        \* the exception remove_object raised, or NoExc

sqlVars == <<pc, test_name, input_data, expected_output, object_name, objects,
             records, got_output, nChunks, select_err, raised, compared,
             outcome, nPut, nSelect, nRemove, remove_err>>

\* --------------------------------------------------------------- LogOutput
VARIABLES
    name, function, args,   \* self.__name, self.__function, self.__args
    start_time,             \* self.__start_time, in half milliseconds
    now,                    \* time.time(), in half milliseconds
    report,                 \* the record the last json_report returned
    call,                   \* the arguments of the last json_report
    ctx,                    \* whether that call ran inside an except handler
    clean,                  \* no attribute was assigned since the last json_report
    repeated,               \* the last step repeated the call before it on a clean reporter
    assigned                \* every args entry assigned so far, with its last value

logVars == <<name, function, args, start_time, now, report, call, ctx, clean,
             repeated, assigned>>

\* --------------------------------------------------- main() of tests.py
VARIABLES
    mpc,              \* position inside main() and the test function it called
    next_test,        \* position in the listed order of the next test to run
    log_output,       \* the reporter bound to main()'s local log_output
    constructed,      \* LogOutput objects constructed so far
    in_flight,        \* the exception in flight inside the test function, or PyNone
    caught,           \* err: the exception main()'s handler caught, or PyNone
    failed,           \* position of the test whose call raised, 0 if none
    started,          \* the tests called so far, in call order
    printed,          \* the records printed so far, each with the reporter it came from
    exit_status,      \* -1 while running, then the exit status of the process
    uncaught          \* type of the exception that left main(), "" if none

mainVars == <<mpc, next_test, log_output, constructed, in_flight, caught, failed,
              started, printed, exit_status, uncaught>>

\* ------------------------------------- functional_test.py (three variants)
VARIABLES
    variant,          \* which functional_test.py runs: "Apps", "apps", "sdk_tests"
    python,           \* major version of the interpreter, 0 before the start
    is_s3,            \* the endpoint starts with "s3.amazonaws"
    spc,              \* position inside run_tests and the function it called
    ti,               \* position in run_tests of the call being made
    oi,               \* position in the body of the function being run
    files,            \* the local files that exist
    bucket,           \* the bucket setup makes exists on the server
    stored,           \* the suffixes of the objects that exist under that bucket
    others,           \* what else the run has left on the server
    fn_failed,        \* some function other than teardown has raised in this run
    raising,          \* the exception in flight, or Nothing
    body_raised,      \* the body of some test function has raised in this run
    created,          \* the local files the function being run has created
    op_exc,           \* what the first failing statement of that function raised
    stored_ok,        \* the object the function put has the size of its payload
    fn_outcome,       \* how the undecorated function ended: "returned", "raised"
    run_outcome       \* "running", then "ok" or "failed"

suiteVars == <<variant, python, is_s3, spc, ti, oi, files, bucket, stored, others,
               fn_failed, raising, body_raised, created, op_exc, stored_ok, fn_outcome,
               run_outcome>>

\* ------------------------------ one LogOutput object and what it rendered
VARIABLES
    given,            \* the test_name given to LogOutput(meth, test_name)
    reporter,         \* the attributes of the object
    renders,          \* the records json_report returned so far, in order
    touched           \* args was assigned to since the construction

reporterVars == <<given, reporter, renders, touched>>

\* --------------------------------- a table-driven test of csv.py (63-183)
VARIABLES
    tpc,              \* position inside the table test
    case_idx,         \* idx of enumerate(tests): the case running or to run next
    executed,         \* the calls of test_sql_api that ended, in order
    bucket_made,      \* make_bucket returned
    nRemoveBucket,    \* calls of remove_bucket so far
    propagating,      \* the exception on its way out of the test, or NoExc
    pass_printed      \* print(log_output.json_report()) was reached

tableVars == <<tpc, case_idx, executed, bucket_made, nRemoveBucket, propagating,
               pass_printed>>

vars == <<sqlVars, logVars, mainVars, suiteVars, reporterVars, tableVars>>
notSql == <<logVars, mainVars, suiteVars, reporterVars, tableVars>>
notLog == <<sqlVars, mainVars, suiteVars, reporterVars, tableVars>>
notMain == <<sqlVars, logVars, suiteVars, reporterVars, tableVars>>
notSuite == <<sqlVars, logVars, mainVars, reporterVars, tableVars>>
notReporter == <<sqlVars, logVars, mainVars, suiteVars, tableVars>>
notSqlNorTable == <<logVars, mainVars, suiteVars, reporterVars>>

Running == [ended |-> FALSE, exc |-> NoExc, context |-> NoExc]
Ended(exc, context) == [ended |-> TRUE, exc |-> exc, context |-> context]

UnexpectedFailureMsg(tname, err) ==
    <<Lit("Test "), Lit(tname), Lit(" unexpectedly failed with: ")>> \o StrExc(err)

ExpectedExceptionMsg(tname, got) ==
    <<Lit("Test "), Lit(tname), Lit(": expected an exception, got "), BytesRepr(got)>>

\* the data-mismatch message without the expected bytes       (mutant)
DataMismatchMsg_NoExpected(tname, expected, got) ==
    <<Lit("Test "), Lit(tname), Lit(": data mismatch. Received "), BytesRepr(got)>>

DataMismatchMsg(tname, expected, got) ==
    <<Lit("Test "), Lit(tname), Lit(": data mismatch. Expected : "), BytesRepr(expected),
      Lit(", Received "), BytesRepr(got)>>

\* the except clause, raising whatever was expected           (mutant)
ExceptClause_AlwaysRaise(expected, tname, err) ==
    ValueError("unexpectedly failed", UnexpectedFailureMsg(tname, err))

\* the except clause, absorbing every error                    (mutant)
ExceptClause_Swallow(expected, tname, err) == NoExc

\* lines 48-51: the except clause; what it raises (NoExc: the error is absorbed)
ExceptClause(expected, tname, err) ==
    IF ~IsException(expected)
    THEN ValueError("unexpectedly failed", UnexpectedFailureMsg(tname, err))
    ELSE NoExc

\* the else clause, comparing lengths instead of contents     (mutant)
ElseClause_LengthOnly(expected, tname, got) ==
    IF IsException(expected)
    THEN ValueError("expected an exception", ExpectedExceptionMsg(tname, got))
    ELSE IF Len(got) # Len(expected.bytes)
         THEN ValueError("data mismatch", DataMismatchMsg(tname, expected.bytes, got))
         ELSE NoExc

\* lines 52-58: the else clause; what it raises (NoExc: the case matched)
ElseClause(expected, tname, got) ==
    IF IsException(expected)
    THEN ValueError("expected an exception", ExpectedExceptionMsg(tname, got))
    ELSE IF got # expected.bytes
         THEN ValueError("data mismatch", DataMismatchMsg(tname, expected.bytes, got))
         ELSE NoExc

\* line 56 is reached only when line 53 did not raise
ElseCompares(expected) == ~IsException(expected)

\* lines 59-60: how the call ends once remove_object has returned or raised
FinallyOutcome(pending, removeErr) ==
    IF removeErr.type # "None" THEN Ended(removeErr, pending)
    ELSE Ended(pending, NoExc)

\* a remove_object that removes nothing                       (mutant)
RemoveObject_Noop(objs, key) == objs

\* the bucket after remove_object(bucket_name, object_name) returned
RemoveObject(objs, key) == objs \ {key}

SqlInit ==
    /\ pc = "idle"
    /\ test_name = ""
    /\ input_data = <<>>
    /\ expected_output = ExpectBytes(<<>>)
    /\ object_name = 0
    /\ objects = {}
    /\ records = <<>>
    /\ got_output = <<>>
    /\ nChunks = 0
    /\ select_err = NoExc
    /\ raised = NoExc
    /\ compared = FALSE
    /\ outcome = Running
    /\ nPut = 0 /\ nSelect = 0 /\ nRemove = 0
    /\ remove_err = NoExc

Expectations == {ExpectException} \cup {ExpectBytes(b) : b \in SeqsUpTo(ByteVals, MaxLen)}

\* lines 34-37: the call, up to the try
Call(idx, data, expected) ==
    /\ pc = "idle"
    /\ pc' = "put"
    /\ test_name' = TestNameOf(idx)
    /\ input_data' = data
    /\ expected_output' = expected
    /\ object_name' = 1
    /\ got_output' = <<>>
    /\ UNCHANGED <<objects, records, nChunks, select_err, raised, compared, outcome,
                   nPut, nSelect, nRemove, remove_err>>
    /\ UNCHANGED notSql

\* lines 40-41: put_object returns
PutOk ==
    /\ pc = "put"
    /\ pc' = "select"
    /\ objects' = objects \cup {object_name}
    /\ nPut' = nPut + 1
    /\ UNCHANGED <<test_name, input_data, expected_output, object_name, records,
                   got_output, nChunks, select_err, raised, compared, outcome,
                   nSelect, nRemove, remove_err>>
    /\ UNCHANGED notSql

\* an error handler that repeats the failed step                 (mutant)
OnError_Retry(step) == step

\* line 48: an exception raised at any step of the try body goes to the
\* except clause; no step is repeated
OnError(step) == "except"

\* a buffer that keeps only the chunk last read                   (mutant)
Accumulate_LastChunk(recs, d) == d

\* lines 40-41, 48: put_object raises and no object is stored
PutFail(err) ==
    /\ pc = "put"
    /\ pc' = OnError("put")
    /\ select_err' = err
    /\ nPut' = nPut + 1
    /\ UNCHANGED <<test_name, input_data, expected_output, object_name, objects,
                   records, got_output, nChunks, raised, compared, outcome,
                   nSelect, nRemove, remove_err>>
    /\ UNCHANGED notSql

\* lines 42-44: select_object_content returns a response
SelectOk ==
    /\ pc = "select"
    /\ pc' = "stream"
    /\ records' = <<>>
    /\ nSelect' = nSelect + 1
    /\ UNCHANGED <<test_name, input_data, expected_output, object_name, objects,
                   got_output, nChunks, select_err, raised, compared, outcome,
                   nPut, nRemove, remove_err>>
    /\ UNCHANGED notSql

\* lines 42, 48: select_object_content raises
SelectFail(err) ==
    /\ pc = "select"
    /\ pc' = OnError("select")
    /\ select_err' = err
    /\ nSelect' = nSelect + 1
    /\ UNCHANGED <<test_name, input_data, expected_output, object_name, objects,
                   records, got_output, nChunks, raised, compared, outcome,
                   nPut, nRemove, remove_err>>
    /\ UNCHANGED notSql

\* line 47: got_output after chunk d was written to records
Accumulate(recs, d) == recs \o d

\* lines 45-47: the stream yields the chunk d
StreamChunk(d) ==
    /\ pc = "stream"
    /\ nChunks < MaxChunks
    /\ records' = records \o d
    /\ got_output' = Accumulate(records, d)
    /\ nChunks' = nChunks + 1
    /\ UNCHANGED <<pc, test_name, input_data, expected_output, object_name, objects,
                   select_err, raised, compared, outcome, nPut, nSelect, nRemove, remove_err>>
    /\ UNCHANGED notSql

\* lines 45, 48: reading the stream raises
StreamFail(err) ==
    /\ pc = "stream"
    /\ pc' = OnError("stream")
    /\ select_err' = err
    /\ UNCHANGED <<test_name, input_data, expected_output, object_name, objects,
                   records, got_output, nChunks, raised, compared, outcome,
                   nPut, nSelect, nRemove, remove_err>>
    /\ UNCHANGED notSql

\* lines 45, 52: the stream is exhausted, the try body completed
StreamEnd ==
    /\ pc = "stream"
    /\ pc' = "else"
    /\ UNCHANGED <<test_name, input_data, expected_output, object_name, objects,
                   records, got_output, nChunks, select_err, raised, compared,
                   outcome, nPut, nSelect, nRemove, remove_err>>
    /\ UNCHANGED notSql

\* lines 48-51
Except ==
    /\ pc = "except"
    /\ pc' = "finally"
    /\ raised' = ExceptClause(expected_output, test_name, select_err)
    /\ UNCHANGED <<test_name, input_data, expected_output, object_name, objects,
                   records, got_output, nChunks, select_err, compared, outcome,
                   nPut, nSelect, nRemove, remove_err>>
    /\ UNCHANGED notSql

\* lines 52-58
Else ==
    /\ pc = "else"
    /\ pc' = "finally"
    /\ raised' = ElseClause(expected_output, test_name, got_output)
    /\ compared' = ElseCompares(expected_output)
    /\ UNCHANGED <<test_name, input_data, expected_output, object_name, objects,
                   records, got_output, nChunks, select_err, outcome,
                   nPut, nSelect, nRemove, remove_err>>
    /\ UNCHANGED notSql

\* lines 59-60: remove_object returns
FinallyOk ==
    /\ pc = "finally"
    /\ pc' = "done"
    /\ objects' = RemoveObject(objects, object_name)
    /\ nRemove' = nRemove + 1
    /\ remove_err' = NoExc
    /\ outcome' = FinallyOutcome(raised, NoExc)
    /\ UNCHANGED <<test_name, input_data, expected_output, object_name, records,
                   got_output, nChunks, select_err, raised, compared, nPut, nSelect>>
    /\ UNCHANGED notSql

\* lines 59-60: remove_object raises; the object is left as it was
FinallyFail(err) ==
    /\ pc = "finally"
    /\ pc' = "done"
    /\ nRemove' = nRemove + 1
    /\ remove_err' = err
    /\ outcome' = FinallyOutcome(raised, err)
    /\ UNCHANGED <<test_name, input_data, expected_output, object_name, objects,
                   records, got_output, nChunks, select_err, raised, compared,
                   nPut, nSelect>>
    /\ UNCHANGED notSql

SqlNext ==
    \/ \E idx \in 0..MaxIdx, data \in SeqsUpTo(ByteVals, MaxInputLen),
          expected \in Expectations : Call(idx, data, expected)
    \/ PutOk
    \/ \E err \in ClientErrors : PutFail(err)
    \/ SelectOk
    \/ \E err \in ClientErrors : SelectFail(err)
    \/ \E d \in SeqsUpTo(ByteVals, MaxChunkLen) : StreamChunk(d)
    \/ \E err \in ClientErrors : StreamFail(err)
    \/ StreamEnd
    \/ Except
    \/ Else
    \/ FinallyOk
    \/ \E err \in ClientErrors : FinallyFail(err)


\* ------------------------------------------- the table-driven tests (csv.py)
\* lines 67-73 and 133-139: the three rows of a table, the byte strings cut
\* down to the alphabet of the model: one case that expects a failure, then
\* two that expect a literal result
TableCases ==
    <<[data |-> <<0>>, expected |-> ExpectException],
      [data |-> <<1>>, expected |-> ExpectBytes(<<1>>)],
      [data |-> <<0>>, expected |-> ExpectBytes(<<0, 1>>)]>>
NCases == Len(TableCases)

TableInit ==
    /\ tpc = "make_bucket"
    /\ case_idx = 0
    /\ executed = <<>>
    /\ bucket_made = FALSE
    /\ nRemoveBucket = 0
    /\ propagating = NoExc
    /\ pass_printed = FALSE

\* lines 98, 149: make_bucket returns; the try statement is entered
TableMakeBucketOk ==
    /\ tpc = "make_bucket"
    /\ tpc' = "loop"
    /\ bucket_made' = TRUE
    /\ UNCHANGED <<case_idx, executed, nRemoveBucket, propagating, pass_printed>>
    /\ UNCHANGED sqlVars
    /\ UNCHANGED notSqlNorTable

\* lines 98, 149: make_bucket raises, outside the try statement
TableMakeBucketFail(err) ==
    /\ tpc = "make_bucket"
    /\ tpc' = "raised"
    /\ propagating' = err
    /\ UNCHANGED <<case_idx, executed, bucket_made, nRemoveBucket, pass_printed>>
    /\ UNCHANGED sqlVars
    /\ UNCHANGED notSqlNorTable

\* lines 101, 120-121 (154, 178-179): the next row is passed to test_sql_api
CaseCall ==
    /\ tpc = "loop"
    /\ case_idx < NCases
    /\ Call(case_idx, TableCases[case_idx + 1].data, TableCases[case_idx + 1].expected)

\* a call that is over as soon as its finally clause is reached   (mutant)
CallEnded_BeforeFinally(at) == at \in {"finally", "done"}

\* lines 59-60: test_sql_api returns or raises once its finally clause ran
CallEnded(at) == at = "done"

\* a loop that goes on to the next row whatever the call did     (mutant)
AfterCase_Continue(exc, idx) == [tpc |-> "loop", idx |-> idx + 1]

\* lines 101, 122 (154, 180): a call that returns is followed by the next
\* row; an exception leaves the loop for the finally clause
AfterCase(exc, idx) ==
    IF exc.type # "None" THEN [tpc |-> "finally", idx |-> idx]
    ELSE [tpc |-> "loop", idx |-> idx + 1]

\* whether the call met the expectation of its row: a failure of the body
\* for an Exception, the expected bytes from a body that completed otherwise
Matched ==
    IF IsException(expected_output) THEN select_err.type # "None"
    ELSE select_err.type = "None" /\ got_output = expected_output.bytes

\* lines 120-121 (178-179): the call of test_sql_api ends
CaseEnd ==
    LET after == AfterCase(outcome.exc, case_idx)
    IN  /\ tpc = "loop"
        /\ pc # "idle"
        /\ CallEnded(pc)
        /\ executed' = Append(executed, [idx |-> case_idx,
                                         ok |-> outcome.exc.type = "None",
                                         matched |-> Matched,
                                         removals |-> nRemove])
        /\ tpc' = after.tpc
        /\ case_idx' = after.idx
        /\ propagating' = outcome.exc
        /\ pc' = "idle"
        /\ test_name' = ""
        /\ input_data' = <<>>
        /\ expected_output' = ExpectBytes(<<>>)
        /\ object_name' = 0
        /\ records' = <<>>
        /\ got_output' = <<>>
        /\ nChunks' = 0
        /\ select_err' = NoExc
        /\ raised' = NoExc
        /\ compared' = FALSE
        /\ outcome' = Running
        /\ nPut' = 0 /\ nSelect' = 0 /\ nRemove' = 0
        /\ remove_err' = NoExc
        /\ UNCHANGED <<objects, bucket_made, nRemoveBucket, pass_printed>>
        /\ UNCHANGED notSqlNorTable

\* lines 101, 122 (154, 180): the table is exhausted
LoopEnd ==
    /\ tpc = "loop"
    /\ pc = "idle"
    /\ case_idx = NCases
    /\ tpc' = "finally"
    /\ UNCHANGED <<case_idx, executed, bucket_made, nRemoveBucket, propagating,
                   pass_printed>>
    /\ UNCHANGED sqlVars
    /\ UNCHANGED notSqlNorTable

\* lines 122-123 (180-181): remove_bucket returns; a pending exception goes on
TableRemoveBucketOk ==
    /\ tpc = "finally"
    /\ nRemoveBucket' = nRemoveBucket + 1
    /\ tpc' = IF propagating.type # "None" THEN "raised" ELSE "print"
    /\ UNCHANGED <<case_idx, executed, bucket_made, propagating, pass_printed>>
    /\ UNCHANGED sqlVars
    /\ UNCHANGED notSqlNorTable

\* lines 122-123 (180-181): remove_bucket raises
TableRemoveBucketFail(err) ==
    /\ tpc = "finally"
    /\ nRemoveBucket' = nRemoveBucket + 1
    /\ propagating' = err
    /\ tpc' = "raised"
    /\ UNCHANGED <<case_idx, executed, bucket_made, pass_printed>>
    /\ UNCHANGED sqlVars
    /\ UNCHANGED notSqlNorTable

\* lines 125-126 (182-183): print(log_output.json_report())
TablePrint ==
    /\ tpc = "print"
    /\ pass_printed' = TRUE
    /\ tpc' = "returned"
    /\ UNCHANGED <<case_idx, executed, bucket_made, nRemoveBucket, propagating>>
    /\ UNCHANGED sqlVars
    /\ UNCHANGED notSqlNorTable

TableNext ==
    \/ TableMakeBucketOk
    \/ \E err \in ClientErrors : TableMakeBucketFail(err)
    \/ CaseCall
    \/ PutOk
    \/ \E err \in ClientErrors : PutFail(err)
    \/ SelectOk
    \/ \E err \in ClientErrors : SelectFail(err)
    \/ \E d \in SeqsUpTo(ByteVals, MaxChunkLen) : StreamChunk(d)
    \/ \E err \in ClientErrors : StreamFail(err)
    \/ StreamEnd
    \/ Except
    \/ Else
    \/ FinallyOk
    \/ \E err \in ClientErrors : FinallyFail(err)
    \/ CaseEnd
    \/ LoopEnd
    \/ TableRemoveBucketOk
    \/ \E err \in ClientErrors : TableRemoveBucketFail(err)
    \/ TablePrint

\* ------------------------------------------------------ LogOutput (utils.py)
\* Python values: str, int, None, an exception object, a dict of such values
PyStr(s) == [t |-> "str", s |-> s, n |-> 0, d |-> <<>>]
PyInt(n) == [t |-> "int", s |-> "", n |-> n, d |-> <<>>]
PyNone == [t |-> "NoneType", s |-> "", n |-> 0, d |-> <<>>]
PyExc(s) == [t |-> "Exception", s |-> s, n |-> 0, d |-> <<>>]
PyDict(d) == [t |-> "dict", s |-> "", n |-> 0, d |-> d]

\* bool(v): an exception object defines neither __bool__ nor __len__
Truthy(v) ==
    CASE v.t = "str" -> v.s # ""
      [] v.t = "int" -> v.n # 0
      [] v.t = "NoneType" -> FALSE
      [] v.t = "Exception" -> TRUE
      [] v.t = "dict" -> DOMAIN v.d # {}

\* str(v); str(exception) is the text of its message
Str(v) ==
    CASE v.t = "str" -> v.s
      [] v.t = "int" -> ToString(v.n)
      [] v.t = "NoneType" -> "None"
      [] v.t = "Exception" -> v.s
      [] v.t = "dict" -> "{...}"

\* the condition `v and v != ''` of lines 90, 97-99 and 101
Kept(v) == Truthy(v) /\ v # PyStr("")

PASS == "PASS"
FAIL == "FAIL"
NA == "NA"

\* the method under test, as inspect.getargspec sees it
select_object_content ==
    [name |-> "select_object_content",
     args |-> <<"self", "bucket_name", "object_name", "request">>]

RECURSIVE Join(_, _)
Join(sep, words) ==
    IF words = <<>> THEN ""
    ELSE IF Len(words) = 1 THEN words[1]
    ELSE words[1] \o sep \o Join(sep, Tail(words))

\* an argument list that keeps the receiver                      (mutant)
ArgsList_WithSelf(meth) == meth.args

\* line 60
ArgsList(meth) == Tail(meth.args)
\* line 61
NameOf(test) == "s3select:" \o test
\* line 62
FunctionOf(meth) == meth.name \o "(" \o Join(", ", ArgsList(meth)) \o ")"

\* traceback.format_exc(): the trace of the exception being handled, if any
FormatExc(handling) ==
    IF handling THEN "Traceback (most recent call last): ..." ELSE "NoneType: None\n"

\* int(round(x)) of x = halves/2: Python rounds a half to the even neighbour
RoundHalf(halves) ==
    LET floor == halves \div 2
    IN  IF halves % 2 = 0 THEN floor
        ELSE IF floor % 2 = 0 THEN floor ELSE floor + 1

\* line 94
Duration(t, start) == RoundHalf(t - start)

\* an args comprehension that drops nothing                    (mutant)
FilterArgs_KeepAll(a) == a

\* line 90: the args comprehension
FilterArgs(a) == [k \in {x \in DOMAIN a : Kept(a[x])} |-> a[k]]

\* args forgotten once rendered                                (mutant)
StoredArgs_Cleared(kept) == <<>>

\* line 90: the filtered mapping replaces self.__args
StoredArgs(kept) == kept

\* status computed from the error message first                (mutant)
Status_ErrorFirst(err_msg, status) ==
    IF Kept(err_msg) THEN PyStr(FAIL)
    ELSE IF Kept(status) THEN status ELSE PyStr(PASS)

\* lines 98-99
Status(err_msg, status) ==
    IF Kept(status) THEN status
    ELSE IF Kept(err_msg) THEN PyStr(FAIL) ELSE PyStr(PASS)

\* line 97
Error(err_msg, handling) ==
    IF Kept(err_msg) THEN PyStr(FormatExc(handling)) ELSE PyStr("")

\* lines 91-100
Entry(nm, fn, a, dur, err_msg, alert, status, handling) ==
    [name |-> PyStr(nm),
     function |-> PyStr(fn),
     args |-> PyDict(a),
     duration |-> PyInt(dur),
     alert |-> PyStr(Str(alert)),
     message |-> PyStr(Str(err_msg)),
     error |-> Error(err_msg, handling),
     status |-> Status(err_msg, status)]

\* a dump that omits nothing                                   (mutant)
Dumps_Everything(e) == e

\* line 101: the record json.dumps receives
Dumps(e) == [k \in {x \in DOMAIN e : Kept(e[x])} |-> e[k]]

NoCall == [made |-> FALSE, err_msg |-> PyStr(""), alert |-> PyStr(""), status |-> PyStr("")]
CallOf(err_msg, alert, status) ==
    [made |-> TRUE, err_msg |-> err_msg, alert |-> alert, status |-> status]

LogTestNames == {"test_csv_input_quote_char"}

\* lines 59-69: the reporter as main() constructs it
LogInit ==
    /\ \E test \in LogTestNames : name = NameOf(test)
    /\ function = FunctionOf(select_object_content)
    /\ args = <<>>
    /\ start_time = 0
    /\ now = 0
    /\ report = <<>>
    /\ call = NoCall
    /\ ctx = FALSE
    /\ clean = FALSE
    /\ repeated = FALSE
    /\ assigned = <<>>

\* a[k] = v
SetItem(a, k, v) == [x \in DOMAIN a \cup {k} |-> IF x = k THEN v ELSE a[x]]

\* lines 77-78 and a caller's log_output.args[k] = v (csv.py lines 65, 131)
SetArg(k, v) ==
    /\ args' = SetItem(args, k, v)
    /\ assigned' = SetItem(assigned, k, v)
    /\ clean' = FALSE
    /\ repeated' = FALSE
    /\ UNCHANGED <<name, function, start_time, now, report, call, ctx>>
    /\ UNCHANGED notLog

\* lines 80-81
SetName(val) ==
    /\ name' = val
    /\ name # val
    /\ clean' = FALSE
    /\ repeated' = FALSE
    /\ UNCHANGED <<function, args, start_time, now, report, call, ctx, assigned>>
    /\ UNCHANGED notLog

\* time passes
Tick ==
    /\ now < MaxClock
    /\ now' = now + 1
    /\ repeated' = FALSE
    /\ UNCHANGED <<name, function, args, start_time, report, call, ctx, clean, assigned>>
    /\ UNCHANGED notLog

\* lines 89-101
JsonReport(err_msg, alert, status, handling) ==
    LET kept == FilterArgs(args)
    IN  /\ args' = StoredArgs(kept)
        /\ report' = Dumps(Entry(name, function, kept, Duration(now, start_time),
                                 err_msg, alert, status, handling))
        /\ call' = CallOf(err_msg, alert, status)
        /\ ctx' = handling
        /\ clean' = TRUE
        /\ repeated' = (clean /\ call = CallOf(err_msg, alert, status) /\ ctx = handling)
        /\ UNCHANGED <<name, function, start_time, now, assigned>>
        /\ UNCHANGED notLog

\* the entries a test body assigns: a key of the signature and one that is not
ArgItems == {<<"bucket_name", PyStr("s3select-test-1")>>, <<"bucket_name", PyStr("")>>,
             <<"note", PyStr("19 cases")>>, <<"note", PyInt(0)>>}
ErrMsgs == {PyStr(""), PyStr("boom"), PyExc("boom"), PyExc("")}
Alerts == {PyStr(""), PyStr("server-side issue")}
Statuses == {PyStr(""), PyStr(PASS), PyStr(FAIL), PyStr(NA)}

LogNext ==
    \/ \E item \in ArgItems : SetArg(item[1], item[2])
    \/ SetName("")
    \/ Tick
    \/ \E err_msg \in ErrMsgs, alert \in Alerts, status \in Statuses, handling \in BOOLEAN :
          JsonReport(err_msg, alert, status, handling)

\* ------------------------------------------------------ main() (tests.py)
\* lines 54-95: the names main() gives to LogOutput, in the listed order
TestList == <<"test_csv_input_quote_char", "test_csv_output_quote_char",
              "test_sql_operators", "test_sql_operators_precedence",
              "test_sql_functions_agg_cond_conv", "test_sql_functions_date",
              "test_sql_functions_string", "test_sql_datatypes",
              "test_sql_select", "test_sql_select_json", "test_sql_select_csv">>
NTests == Len(TestList)

\* the local log_output before its first assignment
Unbound == [id |-> 0, name |-> "", function |-> "", args |-> <<>>,
            duration |-> 0, alert |-> PyStr(""), message |-> PyNone,
            error |-> PyNone, status |-> "", start_time |-> 0]

\* utils.py lines 59-69: LogOutput(meth, test_name), the id-th object constructed
LogOutput(id, meth, test, t) ==
    [id |-> id, name |-> NameOf(test), function |-> FunctionOf(meth),
     args |-> <<>>, duration |-> 0, alert |-> PyStr(""), message |-> PyNone,
     error |-> PyNone, status |-> PASS, start_time |-> t]

\* an assignment that keeps the first reporter ever bound        (mutant)
Bind_KeepFirst(old, new) == IF old.id = 0 THEN new ELSE old

\* lines 54, 58, ..., 93: log_output = LogOutput(...)
Bind(old, new) == new

\* utils.py lines 89-101: lo.json_report(err_msg), as a record
JsonReportOf(lo, err_msg, handling) ==
    Dumps(Entry(lo.name, lo.function, FilterArgs(lo.args),
                Duration(now, lo.start_time), err_msg, PyStr(""), PyStr(""), handling))

\* a handler that renders the reporter without the error          (mutant)
HandlerRecord_NoError(lo, e) == JsonReportOf(lo, PyStr(""), TRUE)

\* line 98: log_output.json_report(err)
HandlerRecord(lo, e) == JsonReportOf(lo, e, TRUE)

\* csv.py lines 126, 183: log_output.json_report()
PassRecord(lo) == JsonReportOf(lo, PyStr(""), FALSE)

\* a json_report that stores what it rendered                     (mutant)
AfterReport_Persisting(lo, err_msg) ==
    [lo EXCEPT !.args = FilterArgs(lo.args),
               !.message = PyStr(Str(err_msg)),
               !.status = Status(err_msg, PyStr("")).s]

\* utils.py lines 89-101: the object after lo.json_report(err_msg); line 90
\* is the only assignment to an attribute
AfterReport(lo, err_msg) == [lo EXCEPT !.args = StoredArgs(FilterArgs(lo.args))]

\* print(...)
Print_(out, lo, rec) == Append(out, [by |-> lo.id, rec |-> rec])

\* the exceptions the client and the cases raise: with and without a message
Raisable == {PyExc("boom"), PyExc("")}

\* csv.py line 65: generate_bucket_name()
BucketNameOf(i) == PyStr("s3select-test-" \o ToString(i))

MainInit ==
    /\ mpc = "client"
    /\ next_test = 1
    /\ log_output = Unbound
    /\ constructed = 0
    /\ in_flight = PyNone
    /\ caught = PyNone
    /\ failed = 0
    /\ started = <<>>
    /\ printed = <<>>
    /\ exit_status = -1
    /\ uncaught = ""

\* lines 42-52: Minio(...) returns
ClientOk ==
    /\ mpc = "client"
    /\ mpc' = "construct"
    /\ UNCHANGED <<next_test, log_output, constructed, in_flight, caught, failed,
                   started, printed, exit_status, uncaught>>
    /\ UNCHANGED notMain

\* lines 52, 97: Minio(...) raises (an endpoint it rejects)
ClientFail(e) ==
    /\ mpc = "client"
    /\ caught' = e
    /\ mpc' = "handler"
    /\ UNCHANGED <<next_test, log_output, constructed, in_flight, failed,
                   started, printed, exit_status, uncaught>>
    /\ UNCHANGED notMain

\* lines 54-55, 58-59, ...: log_output = LogOutput(client.select_object_content, name)
Construct ==
    /\ mpc = "construct"
    /\ constructed' = constructed + 1
    /\ log_output' = Bind(log_output,
                          LogOutput(constructed + 1, select_object_content,
                                    TestList[next_test], now))
    /\ mpc' = "call"
    /\ UNCHANGED <<next_test, in_flight, caught, failed, started, printed,
                   exit_status, uncaught>>
    /\ UNCHANGED notMain

\* lines 56, 60, ... and csv.py line 65: the test is called and names its bucket
TestCall ==
    /\ mpc = "call"
    /\ started' = Append(started, next_test)
    /\ log_output' = [log_output EXCEPT
                        !.args = SetItem(@, "bucket_name", BucketNameOf(next_test))]
    /\ mpc' = "make_bucket"
    /\ UNCHANGED <<next_test, constructed, in_flight, caught, failed, printed,
                   exit_status, uncaught>>
    /\ UNCHANGED notMain

\* csv.py line 98: client.make_bucket(bucket_name) returns
MakeBucketOk ==
    /\ mpc = "make_bucket"
    /\ mpc' = "cases"
    /\ UNCHANGED <<next_test, log_output, constructed, in_flight, caught, failed,
                   started, printed, exit_status, uncaught>>
    /\ UNCHANGED notMain

\* csv.py line 98 raising: the exception leaves the test, main() catches it
MakeBucketFail(e) ==
    /\ mpc = "make_bucket"
    /\ caught' = e
    /\ failed' = next_test
    /\ mpc' = "handler"
    /\ UNCHANGED <<next_test, log_output, constructed, in_flight, started,
                   printed, exit_status, uncaught>>
    /\ UNCHANGED notMain

\* csv.py lines 100-121: every test_sql_api call of the table returns
CasesOk ==
    /\ mpc = "cases"
    /\ mpc' = "remove_bucket"
    /\ UNCHANGED <<next_test, log_output, constructed, in_flight, caught, failed,
                   started, printed, exit_status, uncaught>>
    /\ UNCHANGED notMain

\* csv.py lines 100-122: a test_sql_api call raises, the finally clause runs
CasesFail(e) ==
    /\ mpc = "cases"
    /\ in_flight' = e
    /\ mpc' = "remove_bucket"
    /\ UNCHANGED <<next_test, log_output, constructed, caught, failed, started,
                   printed, exit_status, uncaught>>
    /\ UNCHANGED notMain

\* csv.py lines 122-123: remove_bucket returns; an exception in flight goes on
RemoveBucketOk ==
    /\ mpc = "remove_bucket"
    /\ IF in_flight = PyNone
       THEN /\ mpc' = "report"
            /\ UNCHANGED <<caught, failed>>
       ELSE /\ mpc' = "handler"
            /\ caught' = in_flight
            /\ failed' = next_test
    /\ in_flight' = PyNone
    /\ UNCHANGED <<next_test, log_output, constructed, started, printed,
                   exit_status, uncaught>>
    /\ UNCHANGED notMain

\* csv.py lines 122-123: remove_bucket raises, replacing an exception in flight
RemoveBucketFail(e) ==
    /\ mpc = "remove_bucket"
    /\ caught' = e
    /\ failed' = next_test
    /\ in_flight' = PyNone
    /\ mpc' = "handler"
    /\ UNCHANGED <<next_test, log_output, constructed, started, printed,
                   exit_status, uncaught>>
    /\ UNCHANGED notMain

\* csv.py lines 125-126: print(log_output.json_report()); the test returns and
\* main() goes on to the next one, or returns after the last (exit status 0)
Report ==
    /\ mpc = "report"
    /\ printed' = Print_(printed, log_output, PassRecord(log_output))
    /\ log_output' = [log_output EXCEPT !.args = StoredArgs(FilterArgs(@))]
    /\ IF next_test = NTests
       THEN /\ mpc' = "exited"
            /\ exit_status' = 0
            /\ UNCHANGED next_test
       ELSE /\ mpc' = "construct"
            /\ next_test' = next_test + 1
            /\ UNCHANGED exit_status
    /\ UNCHANGED <<constructed, in_flight, caught, failed, started, uncaught>>
    /\ UNCHANGED notMain

\* lines 97-99: print(log_output.json_report(err)); sys.exit(1)
Handler ==
    /\ mpc = "handler"
    /\ log_output # Unbound
    /\ printed' = Print_(printed, log_output, HandlerRecord(log_output, caught))
    /\ log_output' = [log_output EXCEPT !.args = StoredArgs(FilterArgs(@))]
    /\ exit_status' = 1
    /\ mpc' = "exited"
    /\ UNCHANGED <<next_test, constructed, in_flight, caught, failed, started, uncaught>>
    /\ UNCHANGED notMain

\* line 98 with log_output never assigned: the handler itself raises
\* UnboundLocalError, which leaves main(); the interpreter exits with status 1
HandlerUnbound ==
    /\ mpc = "handler"
    /\ log_output = Unbound
    /\ uncaught' = "UnboundLocalError"
    /\ exit_status' = 1
    /\ mpc' = "exited"
    /\ UNCHANGED <<next_test, log_output, constructed, in_flight, caught, failed,
                   started, printed>>
    /\ UNCHANGED notMain

MainNext ==
    \/ ClientOk
    \/ \E e \in Raisable : ClientFail(e)
    \/ Construct
    \/ TestCall
    \/ MakeBucketOk
    \/ \E e \in Raisable : MakeBucketFail(e)
    \/ CasesOk
    \/ \E e \in Raisable : CasesFail(e)
    \/ RemoveBucketOk
    \/ \E e \in Raisable : RemoveBucketFail(e)
    \/ Report
    \/ Handler
    \/ HandlerUnbound

\* ----------------------------------------- one LogOutput object, rendered
\* no object yet
ReporterInit ==
    /\ given = ""
    /\ reporter = Unbound
    /\ renders = <<>>
    /\ touched = FALSE

\* utils.py lines 59-69: LogOutput(client.select_object_content, test)
ReporterConstruct(test) ==
    /\ reporter = Unbound
    /\ given' = test
    /\ reporter' = LogOutput(1, select_object_content, test, now)
    /\ UNCHANGED <<renders, touched>>
    /\ UNCHANGED notReporter

\* utils.py lines 77-78 with a caller's log_output.args[k] = v
ReporterSetArg(k, v) ==
    /\ reporter # Unbound
    /\ reporter' = [reporter EXCEPT !.args = SetItem(reporter.args, k, v)]
    /\ touched' = TRUE
    /\ UNCHANGED <<given, renders>>
    /\ UNCHANGED notReporter

\* utils.py lines 89-101: json_report(err_msg), inside an except clause
\* (handling) or not
ReporterJsonReport(err_msg, handling) ==
    /\ reporter # Unbound
    /\ Len(renders) < MaxRenders
    /\ renders' = Append(renders, [rec |-> JsonReportOf(reporter, err_msg, handling),
                                   err_msg |-> err_msg,
                                   fresh |-> ~touched /\ renders = <<>>])
    /\ reporter' = AfterReport(reporter, err_msg)
    /\ UNCHANGED <<given, touched>>
    /\ UNCHANGED notReporter

ReporterNext ==
    \/ \E test \in {TestList[1], TestList[NTests]} : ReporterConstruct(test)
    \/ \E item \in ArgItems : ReporterSetArg(item[1], item[2])
    \/ \E err_msg \in ErrMsgs, handling \in BOOLEAN : ReporterJsonReport(err_msg, handling)

\* ------------------------------------------- functional_test.py variants
Variants == {"Apps", "apps", "sdk_tests"}
Pythons == {2, 3}

\* exceptions of the functional suites
Raise(type, message) == [type |-> type, message |-> message]
Nothing == Raise("None", "")
ExactMsg == "At least one of the preconditions you specified did not hold."
OtherMsg == "Precondition Failed"
ResponseError == Raise("ResponseError", "InternalError")
AssertionError == Raise("AssertionError", "")
BucketAlreadyOwnedByYou == Raise("BucketAlreadyOwnedByYou", "Your previous request to create the named bucket succeeded and you already own it.")
BucketAlreadyExists == Raise("BucketAlreadyExists", "The requested bucket name is not available.")
InvalidBucketError == Raise("InvalidBucketError", "Bucket name is not valid.")
PreconditionFailed(message) == Raise("PreconditionFailed", message)
NameError == Raise("NameError", "name 'logger' is not defined")
AttributeError == Raise("AttributeError", "object has no attribute 'message'")
RuntimeError == Raise("RuntimeError", "No active exception to reraise")

\* a statement, or a run of statements, of a test function
Op(k, file) == [k |-> k, file |-> file]
Found == Op("found", "")               \* found = client.bucket_exists(..); assert found == True
Create(file) == Op("create", file)     \* with open(file, 'wb') ...: write; close
Put(file) == Op("put", file)           \* client.put_object / client.fput_object
Remove(file) == Op("remove", file)     \* os.remove(file)
StatAssert == Op("stat", "")           \* stat = client.stat_object(..); assert stat.size == file_stat.st_size
ClientCall == Op("call", "")           \* other calls of the client, any of which may raise
AssertLen == Op("assert", "")          \* assert file_stat.st_size == 10
MakeBucket == Op("make_bucket", "")    \* client.make_bucket(..); client.bucket_exists(..)
CopyCond == Op("copy_cond", "")        \* client.copy_object(.., copy_conditions)
StatCopy == Op("stat_copy", "")        \* copy_stat = client.stat_object(..); assert copy_stat.size == stat.size
Copy == Op("copy", "")                 \* client.copy_object(..) without conditions
PutUrl == Op("put_url", "")            \* presigned_put_object, PUT of a payload, get_object
MakeLongBucket == Op("make_bucket", "long")   \* make_bucket of generate_random_string(65)
MakeRmvBucket == Op("make_rmv", "")    \* client.make_bucket(bucket_name + "rmv")
SweepRmv == Op("sweep_rmv", "")        \* ten uploads, then client.remove_objects(..)
RemoveRmvBucket == Op("remove_rmv", "")   \* client.remove_bucket(bucket_name + "rmv")
RemoveObjects == Op("remove_objects", "")   \* for suffix in suffixes: client.remove_object(..)
RemoveBucket == Op("remove_bucket", "")     \* client.remove_bucket(bucket_name)

\* Apps lines 116-139, 140-162, 165-186, 200-246; apps lines 84-182;
\* sdk_tests lines 83-105
PutThenStat(file) == <<Found, Create(file), Put(file), Remove(file), StatAssert>>

\* sdk_tests lines 107-169: the put tests that end at os.remove
PutOnly(file) == <<Found, Create(file), Put(file), Remove(file)>>

\* Apps lines 323-342, 364-378; apps lines 244-258, 275-284
GetThenStat(file) == <<Found, ClientCall, Create(file), StatAssert, Remove(file)>>

\* the body of function fn in variant vr; consecutive client calls with no
\* local effect between them are one ClientCall, the ten uploads of
\* remove_objects_test and its remove_objects are one SweepRmv, and the
\* second fput_object of the S3 branch is part of Put
Body(vr, fn) ==
    CASE fn = "make_bucket_test" -> <<MakeBucket>>
      [] fn = "make_bucket_test2" -> <<MakeLongBucket>>
      [] fn = "list_buckets_test" -> <<ClientCall>>
      [] fn \in {"put_object", "put_small_object_from_file_test"} ->
            IF vr = "sdk_tests" THEN PutOnly("testfile") ELSE PutThenStat("testfile")
      [] fn = "put_small_object_from_stream_test" -> PutThenStat("testfile")
      [] fn \in {"put_large_object_from_stream_test", "put_large_object_from_file_test"} ->
            IF vr = "sdk_tests" THEN PutOnly("largefile") ELSE PutThenStat("largefile")
      [] fn = "copy_object_test" -> PutThenStat("testfile") \o <<Copy, StatCopy>>
      [] fn = "copy_object_with_conditions_test" ->
            PutThenStat("testfile") \o <<CopyCond, StatCopy>>
      [] fn = "stat_object_test" -> <<Found, Create("testfile"), Put("testfile"), StatAssert>>
      [] fn = "get_object_test" -> GetThenStat("newfile")
      [] fn = "get_partial_object_test" ->
            <<Found, ClientCall, Create("my-testfile"), AssertLen, Remove("my-testfile")>>
      [] fn = "get_fobject_test" -> GetThenStat("newfile_f")
      [] fn \in {"presigned_get_object_url_test", "presigned_post_policy_test"} ->
            <<ClientCall>>
      [] fn = "presigned_put_object_url_test" -> <<PutUrl>>
      [] fn = "remove_objects_test" -> <<MakeRmvBucket, SweepRmv, RemoveRmvBucket>>
      [] fn \in {"list_objects_test", "list_objects_v2_test"} -> <<Found, ClientCall>>
      [] fn = "teardown" -> <<RemoveObjects, RemoveBucket>>

\* the calls run_tests makes, in order (setup's two calls first)
FullRun == <<"make_bucket_test", "put_object", "make_bucket_test2", "list_buckets_test",
             "put_small_object_from_stream_test", "put_large_object_from_stream_test",
             "put_small_object_from_file_test", "put_large_object_from_file_test",
             "copy_object_test", "copy_object_with_conditions_test", "stat_object_test",
             "get_object_test", "get_partial_object_test", "get_fobject_test",
             "presigned_get_object_url_test", "presigned_put_object_url_test",
             "presigned_post_policy_test", "list_objects_test", "list_objects_v2_test",
             "remove_objects_test", "teardown">>
ShortRun == <<"make_bucket_test", "make_bucket_test", "list_buckets_test",
              "put_small_object_from_stream_test", "put_large_object_from_stream_test",
              "put_small_object_from_file_test">>
RunList(vr) == IF vr = "sdk_tests" THEN ShortRun ELSE FullRun

\* the first make_bucket_test of a run makes the bucket the tests use, unless
\* the endpoint is S3: there it makes bucket_name + '.unique' instead
MakesSuiteBucket(fn, i, s3) == fn = "make_bucket_test" /\ i = 1 /\ ~s3

\* Apps line 498, apps line 372: suffixes
Suffixes == <<"", "-small", "-large", "-fsmall", "-flarge", "-copy", "-copycond">>

\* Apps lines 491-521, apps lines 366-397: the object name run_tests and
\* setup give to the function, as its suffix; for the copy tests the source
PutTarget(fn) ==
    CASE fn = "put_small_object_from_stream_test" -> Suffixes[2]
      [] fn = "put_large_object_from_stream_test" -> Suffixes[3]
      [] fn = "put_small_object_from_file_test" -> Suffixes[4]
      [] fn = "put_large_object_from_file_test" -> Suffixes[5]
      [] OTHER -> Suffixes[1]

\* Apps lines 509-510, apps lines 383-384: the destination of the copy
CopyTarget(fn) == IF fn = "copy_object_test" THEN Suffixes[6] ELSE Suffixes[7]

\* a teardown that stops before the copies                        (mutant)
TeardownNames_PutsOnly(sfx) == {sfx[i] : i \in 1..5}

\* Apps lines 531-532, apps lines 401-402: the names teardown removes
TeardownNames(sfx) == {sfx[i] : i \in DOMAIN sfx}

\* what a statement can raise in the current state; a name of 65 characters
\* is refused before any request is made
Raises(op, has_bucket, size_ok) ==
    CASE op.k = "found" -> {ResponseError} \cup (IF has_bucket THEN {} ELSE {AssertionError})
      [] op.k = "stat" -> {ResponseError} \cup (IF size_ok THEN {} ELSE {AssertionError})
      [] op.k \in {"put", "call", "remove_objects", "remove_bucket", "copy", "put_url",
                  "make_rmv", "sweep_rmv", "remove_rmv"} -> {ResponseError}
      [] op.k = "assert" -> {AssertionError}
      [] op.k = "stat_copy" -> {ResponseError, AssertionError}
      [] op.k = "make_bucket" ->
            IF op.file = "long" THEN {InvalidBucketError}
            ELSE {ResponseError, BucketAlreadyOwnedByYou, BucketAlreadyExists,
                  InvalidBucketError}
      [] op.k = "copy_cond" ->
            {ResponseError, PreconditionFailed(ExactMsg), PreconditionFailed(OtherMsg)}
      [] OTHER -> {}

\* everything a statement of a body can raise
ClientRaises == {ResponseError, AssertionError, BucketAlreadyOwnedByYou, BucketAlreadyExists,
                 InvalidBucketError, PreconditionFailed(ExactMsg), PreconditionFailed(OtherMsg)}

\* whether a statement can complete in the current state: a bucket is
\* removed only when it is empty, and no bucket has a name of 65 characters
Completes(op, has_bucket, size_ok, objs, rest) ==
    CASE op.k = "found" -> has_bucket
      [] op.k = "stat" -> size_ok
      [] op.k \in {"put_url", "remove_objects"} -> has_bucket
      [] op.k = "remove_bucket" -> has_bucket /\ objs = {}
      [] op.k = "remove_rmv" -> "rmv-objects" \notin rest
      [] op.k = "make_bucket" -> op.file # "long"
      [] OTHER -> TRUE

\* how an except clause ends
Absorbed == [absorbed |-> TRUE, exc |-> Nothing]
Reraised(e) == [absorbed |-> FALSE, exc |-> e]

\* the try statement nested inside the function's own, if the statement is in one
InnerTry(op, s3) ==
    CASE op.k = "make_bucket" /\ s3 -> "s3"
      [] op.k \in {"copy_cond", "stat_copy"} -> "copy"
      [] OTHER -> "none"

\* logger.error(err): the apps variant never defines logger
LoggerError(vr) == IF vr = "apps" THEN NameError ELSE Nothing

\* the except clauses of the nested try statements
InnerExcept(vr, kind, e) ==
    CASE kind = "s3" ->
            IF e.type \in {"BucketAlreadyOwnedByYou", "BucketAlreadyExists"} THEN Absorbed
            ELSE IF vr = "sdk_tests" THEN Absorbed
            ELSE Reraised(e)
      [] kind = "copy" ->
            IF e.type = "PreconditionFailed"
            THEN IF e.message # ExactMsg /\ LoggerError(vr) # Nothing
                 THEN Reraised(LoggerError(vr))
                 ELSE Absorbed
            ELSE IF LoggerError(vr) # Nothing THEN Reraised(LoggerError(vr))
            ELSE Reraised(e)
      [] OTHER -> Reraised(e)

\* the except clauses of the function's own try statement
OuterExcept(vr, fn, e) ==
    IF fn = "teardown" THEN Reraised(e)
    ELSE IF vr = "sdk_tests" THEN Absorbed
    ELSE IF fn = "make_bucket_test2" /\ e.type = "InvalidBucketError" THEN Absorbed
    ELSE Reraised(e)

\* the function's handlers, innermost first
FnExcept_Of(vr, fn, op, s3, e) ==
    LET inner == InnerExcept(vr, InnerTry(op, s3), e)
    IN  IF inner.absorbed THEN Absorbed ELSE OuterExcept(vr, fn, inner.exc)

\* e.message exists
HasMessage(e, py) ==
    py = 2 \/ e.type \notin {"AssertionError", "NameError", "AttributeError", "RuntimeError"}

Decorated(vr, fn) == vr \in {"Apps", "sdk_tests"} /\ fn # "teardown"

\* Apps decorator.py lines 22-28: the except clause builds a text from
\* e.message and logs it; nothing is raised again unless e has no message
WrapperApps(py, e) == IF HasMessage(e, py) THEN Absorbed ELSE Reraised(AttributeError)

\* sdk_tests decorator.py lines 22-29: the except clause logs, and the bare
\* raise after it raises the exception again (Python 2) or RuntimeError
WrapperSdk(py, e) == IF py = 2 THEN Reraised(e) ELSE Reraised(RuntimeError)

Wrapper(vr, py, e) == IF vr = "Apps" THEN WrapperApps(py, e) ELSE WrapperSdk(py, e)

\* what the caller of fn sees when the function raised e
CallExcept(vr, fn, py, e) == IF Decorated(vr, fn) THEN Wrapper(vr, py, e) ELSE Reraised(e)

\* the except clause of run_tests
RunTestsExcept(vr, e) == IF vr = "sdk_tests" THEN Absorbed ELSE Reraised(e)

\* an exception the function has a clause of its own for, ending in pass
Expected(fn, op, s3, e) ==
    \/ InnerTry(op, s3) = "s3" /\ e.type \in {"BucketAlreadyOwnedByYou", "BucketAlreadyExists"}
    \/ fn = "make_bucket_test2" /\ e.type = "InvalidBucketError"
    \/ InnerTry(op, s3) = "copy" /\ e = PreconditionFailed(ExactMsg)

CurrentFn == RunList(variant)[ti]
CurrentOp == Body(variant, CurrentFn)[oi]

SuiteInit ==
    /\ variant = ""
    /\ python = 0
    /\ is_s3 = FALSE
    /\ spc = "start"
    /\ ti = 0
    /\ oi = 0
    /\ files = {}
    /\ bucket = FALSE
    /\ stored = {}
    /\ others = {}
    /\ fn_failed = FALSE
    /\ raising = Nothing
    /\ body_raised = FALSE
    /\ created = {}
    /\ op_exc = Nothing
    /\ stored_ok = TRUE
    /\ fn_outcome = "none"
    /\ run_outcome = "running"

\* __main__: one of the three scripts starts, under some interpreter, against
\* some endpoint; init_client / setup_client returns and run_tests is entered
SuiteStart(vr, py, s3) ==
    /\ spc = "start"
    /\ variant' = vr
    /\ python' = py
    /\ is_s3' = s3
    /\ spc' = "run"
    /\ ti' = 1
    /\ UNCHANGED <<oi, files, bucket, stored, others, fn_failed, raising, body_raised, created,
                   op_exc, stored_ok, fn_outcome, run_outcome>>
    /\ UNCHANGED notSuite

\* run_tests calls its next function
CallTest ==
    /\ spc = "run"
    /\ ti <= Len(RunList(variant))
    /\ spc' = "body"
    /\ oi' = 1
    /\ created' = {}
    /\ op_exc' = Nothing
    /\ stored_ok' = TRUE
    /\ fn_outcome' = "none"
    /\ UNCHANGED <<variant, python, is_s3, ti, files, bucket, stored, others, fn_failed, raising,
                   body_raised, run_outcome>>
    /\ UNCHANGED notSuite

\* the next statement of the body completes; a put stores the payload
\* faithfully or not, and remove_objects deletes every upload or not
Step(faithful) ==
    /\ spc = "body"
    /\ oi <= Len(Body(variant, CurrentFn))
    /\ Completes(CurrentOp, bucket, stored_ok, stored, others)
    /\ CurrentOp.k \in {"put", "sweep_rmv"} \/ faithful
    /\ oi' = oi + 1
    /\ files' = CASE CurrentOp.k = "create" -> files \cup {CurrentOp.file}
                  [] CurrentOp.k = "remove" -> files \ {CurrentOp.file}
                  [] OTHER -> files
    /\ created' = IF CurrentOp.k = "create" THEN created \cup {CurrentOp.file} ELSE created
    /\ stored_ok' = IF CurrentOp.k = "put" THEN faithful ELSE stored_ok
    /\ stored' = CASE CurrentOp.k = "put" -> stored \cup {PutTarget(CurrentFn)}
                    [] CurrentOp.k \in {"copy", "copy_cond"} ->
                          stored \cup {CopyTarget(CurrentFn)}
                    [] CurrentOp.k = "put_url" -> stored \cup {Suffixes[1]}
                    [] CurrentOp.k = "remove_objects" -> stored \ TeardownNames(Suffixes)
                    [] OTHER -> stored
    /\ others' = CASE CurrentOp.k = "make_bucket" /\ CurrentFn = "make_bucket_test"
                         /\ ti = 1 /\ is_s3 -> others \cup {".unique"}
                    [] CurrentOp.k = "make_rmv" -> others \cup {"rmv"}
                    [] CurrentOp.k = "sweep_rmv" /\ ~faithful -> others \cup {"rmv-objects"}
                    [] CurrentOp.k = "remove_rmv" -> others \ {"rmv"}
                    [] OTHER -> others
    /\ bucket' = CASE CurrentOp.k = "make_bucket"
                         /\ MakesSuiteBucket(CurrentFn, ti, is_s3) -> TRUE
                   [] CurrentOp.k = "remove_bucket" -> FALSE
                   [] OTHER -> bucket
    /\ UNCHANGED <<variant, python, is_s3, spc, ti, fn_failed, raising, body_raised,
                   op_exc, fn_outcome, run_outcome>>
    /\ UNCHANGED notSuite

\* the next statement of the body raises
StepRaise(e) ==
    /\ spc = "body"
    /\ oi <= Len(Body(variant, CurrentFn))
    /\ e \in Raises(CurrentOp, bucket, stored_ok)
    /\ raising' = e
    /\ op_exc' = e
    /\ body_raised' = (body_raised \/
                         (CurrentFn # "teardown" /\ ~Expected(CurrentFn, CurrentOp, is_s3, e)))
    /\ spc' = "except"
    /\ UNCHANGED <<variant, python, is_s3, ti, oi, files, bucket, stored, others, fn_failed, created,
                   stored_ok, fn_outcome, run_outcome>>
    /\ UNCHANGED notSuite

\* the except clauses of the function run; it returns or raises
FnExcept ==
    /\ spc = "except"
    /\ LET r == FnExcept_Of(variant, CurrentFn, CurrentOp, is_s3, raising)
       IN  /\ fn_outcome' = IF r.absorbed THEN "returned" ELSE "raised"
           /\ raising' = r.exc
           /\ fn_failed' = (fn_failed \/ (~r.absorbed /\ CurrentFn # "teardown"))
    /\ spc' = "fn_exit"
    /\ UNCHANGED <<variant, python, is_s3, ti, oi, files, bucket, stored, others,
                   body_raised, created, op_exc, stored_ok, run_outcome>>
    /\ UNCHANGED notSuite

\* the body ran to its end
FnEnd ==
    /\ spc = "body"
    /\ oi > Len(Body(variant, CurrentFn))
    /\ fn_outcome' = "returned"
    /\ spc' = "fn_exit"
    /\ UNCHANGED <<variant, python, is_s3, ti, oi, files, bucket, stored, others, fn_failed, raising,
                   body_raised, created, op_exc, stored_ok, run_outcome>>
    /\ UNCHANGED notSuite

\* the call returns to run_tests, through the wrapper of log_decorate if the
\* function has one
Return ==
    /\ spc = "fn_exit"
    /\ LET r == IF fn_outcome = "returned" THEN Absorbed
                ELSE CallExcept(variant, CurrentFn, python, raising)
       IN  /\ raising' = r.exc
           /\ IF r.absorbed
              THEN /\ spc' = "run"
                   /\ ti' = ti + 1
              ELSE /\ spc' = "run_except"
                   /\ UNCHANGED ti
    /\ UNCHANGED <<variant, python, is_s3, oi, files, bucket, stored, others, fn_failed, body_raised,
                   created, op_exc, stored_ok, fn_outcome, run_outcome>>
    /\ UNCHANGED notSuite

\* an exception reached run_tests: its except clause, then the end of the process
RunExcept ==
    /\ spc = "run_except"
    /\ LET r == RunTestsExcept(variant, raising)
       IN  /\ run_outcome' = IF r.absorbed THEN "ok" ELSE "failed"
           /\ raising' = r.exc
    /\ spc' = "done"
    /\ UNCHANGED <<variant, python, is_s3, ti, oi, files, bucket, stored, others, fn_failed,
                   body_raised, created, op_exc, stored_ok, fn_outcome>>
    /\ UNCHANGED notSuite

\* run_tests made its last call and returns; sdk_tests then prints in teardown()
RunReturn ==
    /\ spc = "run"
    /\ ti > Len(RunList(variant))
    /\ run_outcome' = "ok"
    /\ spc' = "done"
    /\ UNCHANGED <<variant, python, is_s3, ti, oi, files, bucket, stored, others, fn_failed, raising,
                   body_raised, created, op_exc, stored_ok, fn_outcome>>
    /\ UNCHANGED notSuite

SuiteNext ==
    \/ \E vr \in Variants, py \in Pythons, s3 \in BOOLEAN : SuiteStart(vr, py, s3)
    \/ CallTest
    \/ \E faithful \in BOOLEAN : Step(faithful)
    \/ \E e \in ClientRaises : StepRaise(e)
    \/ FnExcept
    \/ FnEnd
    \/ Return
    \/ RunExcept
    \/ RunReturn

\* ---------------------------------------------------------- specifications
Init == SqlInit /\ LogInit /\ MainInit /\ SuiteInit /\ ReporterInit /\ TableInit

\* one call of test_sql_api
Spec == Init /\ [][SqlNext]_vars

\* one LogOutput, assigned to and rendered in any order
SpecLog == Init /\ [][LogNext]_vars

\* one run of main()
SpecMain == Init /\ [][MainNext]_vars

\* one run of a functional_test.py
SpecSuite == Init /\ [][SuiteNext]_vars

\* one LogOutput from its construction on, assigned to and rendered
SpecReporter == Init /\ [][ReporterNext]_vars

\* one run of a table-driven test, its calls of test_sql_api step by step
SpecTable == Init /\ [][TableNext]_vars

\* ------------------------------------------------- claims on test_sql_api
BodyRaised == select_err.type # "None"
AfterMatch == pc \in {"finally", "done"}
BodyCompleted == AfterMatch /\ ~BodyRaised
NamesAll(text, pieces) == \A j \in DOMAIN pieces : Names(text, pieces[j])
\* the exception the caller sees, with the one it replaced
Propagates(e) == outcome.exc = e \/ outcome.context = e

\* C1: for a literal expectation whose upload, select and drain completed, the
\* else clause compares got_output with the expected bytes exactly: it raises
\* the data-mismatch ValueError, naming the test, the expected and the received
\* bytes, if and only if the two differ, and raises nothing when they are
\* equal; the ValueError raised is the one the call ends with (or the context
\* of the cleanup's error).
C1_DataMismatchIffDiffer ==
    (BodyCompleted /\ ~IsException(expected_output)) =>
        /\ compared
        /\ (raised.type = "ValueError") <=> (got_output # expected_output.bytes)
        /\ (got_output = expected_output.bytes) => raised = NoExc
        /\ (raised.type = "ValueError") =>
              /\ raised.template = "data mismatch"
              /\ Names(raised.msg, Lit(test_name))
              /\ Names(raised.msg, BytesRepr(expected_output.bytes))
              /\ Names(raised.msg, BytesRepr(got_output))
              /\ pc = "done" => Propagates(raised)
        /\ (pc = "done" /\ raised = NoExc) => outcome.exc.type # "ValueError"

C1_Witness ==
    /\ pc = "done"
    /\ expected_output = ExpectBytes(<<0, 1>>)
    /\ got_output = <<0>>
    /\ outcome.exc.template = "data mismatch"

\* C2: for an expect-failure case the outcome is decided by whether the try
\* body raised: if it raised, nothing is raised by the except clause and the
\* call reports no mismatch (it returns normally once the cleanup returned);
\* if it completed, the else clause raises the ValueError naming the test and
\* the output; the byte comparison is evaluated in neither branch, and the
\* call returns normally only if the body raised.
C2_ExpectFailure ==
    (AfterMatch /\ IsException(expected_output)) =>
        /\ ~compared
        /\ BodyRaised => raised = NoExc
        /\ ~BodyRaised =>
              /\ raised.type = "ValueError"
              /\ raised.template = "expected an exception"
              /\ Names(raised.msg, Lit(test_name))
              /\ Names(raised.msg, BytesRepr(got_output))
        /\ pc = "done" =>
              /\ (outcome.exc = NoExc) => BodyRaised
              /\ (BodyRaised /\ remove_err = NoExc) => outcome.exc = NoExc
              /\ BodyRaised => (outcome.exc.type # "ValueError" /\ outcome.context = NoExc)
              /\ ~BodyRaised => Propagates(raised)

C2_Witness ==
    /\ pc = "done"
    /\ IsException(expected_output)
    /\ BodyRaised
    /\ nSelect = 1
    /\ outcome.exc = NoExc

\* C3: for a literal expectation, an error raised by put_object, by
\* select_object_content or by the stream makes the except clause raise a
\* ValueError naming the test and the underlying error; the call then never
\* returns normally, and that ValueError is what it ends with (or the context
\* of the cleanup's error).
C3_UnexpectedFailure ==
    (AfterMatch /\ ~IsException(expected_output) /\ BodyRaised) =>
        /\ raised.type = "ValueError"
        /\ raised.template = "unexpectedly failed"
        /\ Names(raised.msg, Lit(test_name))
        /\ NamesAll(raised.msg, StrExc(select_err))
        /\ pc = "done" => (outcome.exc # NoExc /\ Propagates(raised))

C3_Witness ==
    /\ pc = "done"
    /\ ~IsException(expected_output)
    /\ BodyRaised
    /\ nChunks = 1
    /\ outcome.exc.template = "unexpectedly failed"

ActualNamed(e) ==
    IF e.template = "unexpectedly failed" THEN NamesAll(e.msg, StrExc(select_err))
    ELSE Names(e.msg, BytesRepr(got_output))

\* C5 as stated: every mismatch ValueError carries the case identifier, the
\* input payload, the expected result and the actual result.
C5_CarriesIdInputExpectedActual ==
    (raised.type = "ValueError") =>
        /\ Names(raised.msg, Lit(test_name))
        /\ Names(raised.msg, BytesRepr(input_data))
        /\ ~IsException(expected_output) => Names(raised.msg, BytesRepr(expected_output.bytes))
        /\ ActualNamed(raised)

\* C5 amended: every mismatch ValueError carries the case identifier and the
\* actual result; the data mismatch also carries the expected bytes; no bytes
\* value other than these is in the message, so the input payload is not
\* reported.
C5_CarriesIdAndActual ==
    (raised.type = "ValueError") =>
        /\ Names(raised.msg, Lit(test_name))
        /\ ActualNamed(raised)
        /\ (raised.template = "data mismatch") =>
              Names(raised.msg, BytesRepr(expected_output.bytes))
        /\ \A i \in DOMAIN raised.msg :
              (raised.msg[i].k = "bytes") =>
                  \/ raised.msg[i].b = got_output
                  \/ (raised.template = "data mismatch"
                        /\ raised.msg[i].b = expected_output.bytes)

C5_Witness ==
    /\ pc = "done"
    /\ raised.template = "data mismatch"
    /\ input_data = <<1>>
    /\ got_output = <<0>>
    /\ expected_output = ExpectBytes(<<>>)

\* C21: within one call of test_sql_api, put_object and select_object_content
\* are each invoked at most once; with a literal expectation, a call in which
\* either of them (or the stream) raised ends by raising.
C21_SingleInvocationNoRetry ==
    /\ nPut <= 1
    /\ nSelect <= 1
    /\ (pc = "done" /\ BodyRaised /\ ~IsException(expected_output)) =>
          outcome.exc.type # "None"

\* select_object_content times out after the one upload; the case raises
C21_Witness ==
    /\ pc = "done"
    /\ nPut = 1
    /\ nSelect = 1
    /\ select_err = ClientError("timeout")
    /\ ~IsException(expected_output)
    /\ outcome.exc.type = "ValueError"

\* C23: while the stream is drained, every chunk read extends got_output by
\* exactly that chunk (so it is the in-order concatenation of the chunks read
\* so far and equals the buffer's content), and no later step of the call
\* changes it.
C23_AccumulatesChunksInOrder ==
    [][pc # "idle" =>
        \/ got_output' = got_output
        \/ /\ pc = "stream" /\ pc' = "stream"
           /\ \E d \in SeqsUpTo(ByteVals, MaxChunkLen) : got_output' = got_output \o d
           /\ got_output' = records']_vars

\* two non-empty chunks were read, then the stream raised: both are kept
C23_Witness ==
    /\ pc = "done"
    /\ nChunks = 2
    /\ Len(got_output) = 2
    /\ BodyRaised

\* C27 (as stated): an expect-failure case in which put_object raised, so
\* that select_object_content was never invoked, does not return normally.
C27_UploadErrorDoesNotSatisfy ==
    (pc = "done" /\ IsException(expected_output) /\ BodyRaised /\ nSelect = 0) =>
        outcome.exc.type # "None"

\* C28 (as stated): when remove_object raised, the call still ends as the
\* except/else clauses decided: normally if they raised nothing, with their
\* ValueError otherwise.
C28_CleanupErrorKeepsOutcome ==
    (pc = "done" /\ remove_err.type # "None") => outcome.exc = raised

\* --------------------------------------- claims on the table-driven tests
TableOver == tpc \in {"print", "returned", "raised"}

\* C25: once make_bucket has returned, remove_bucket is called exactly once
\* before the test is left, on every path, never twice, and at the time it is
\* called no call of test_sql_api is under way and every call that was made
\* has attempted its remove_object.
C25_BucketRemovedOnceAfterObjects ==
    /\ nRemoveBucket <= 1
    /\ (TableOver /\ bucket_made) => nRemoveBucket = 1
    /\ nRemoveBucket = 1 =>
          /\ bucket_made
          /\ pc = "idle"
          /\ \A i \in DOMAIN executed : executed[i].removals = 1

\* the second case raised: its object removal, then the bucket removal
C25_Witness ==
    /\ tpc = "raised"
    /\ nRemoveBucket = 1
    /\ Len(executed) = 2
    /\ ~executed[2].ok
    /\ executed[2].removals = 1

\* C26: the calls are made in table order from the first row on; a call that
\* raised is the last one made; the PASS record is printed only after every
\* row was run and met its expectation and remove_bucket returned.
C26_TableOrderAndAbort ==
    /\ \A i \in DOMAIN executed : executed[i].idx = i - 1
    /\ \A i \in DOMAIN executed : ~executed[i].ok => i = Len(executed)
    /\ (\E i \in DOMAIN executed : ~executed[i].ok) => (pc = "idle" /\ tpc # "loop")
    /\ (tpc = "print" \/ pass_printed) =>
          /\ Len(executed) = NCases
          /\ \A i \in DOMAIN executed : executed[i].ok /\ executed[i].matched
          /\ nRemoveBucket = 1
          /\ propagating = NoExc

\* every row passed and the record was printed
C26_Witness ==
    /\ pass_printed
    /\ Len(executed) = NCases
    /\ executed[NCases].matched

\* ---------------------------------------------------- claims on LogOutput
Rendered == call.made
Has(r, f) == f \in DOMAIN r
SameField(r1, r2, f) == (Has(r1, f) <=> Has(r2, f)) /\ (Has(r1, f) => r1[f] = r2[f])
TopLevelFields == {"name", "function", "args", "alert", "message", "error", "status"}

\* C6: the status of a rendered record is the explicit status argument when it
\* is non-empty, otherwise FAIL when an error message (a non-empty string or
\* an exception object) was given, otherwise PASS, for every combination of
\* err_msg, alert and status.
C6_StatusPrecedence ==
    Rendered =>
        /\ Has(report, "status")
        /\ report.status =
              IF call.status # PyStr("") THEN call.status
              ELSE IF call.err_msg # PyStr("") THEN PyStr(FAIL)
              ELSE PyStr(PASS)

C6_Witness ==
    /\ Rendered
    /\ call.err_msg = PyStr("boom")
    /\ call.status = PyStr(NA)
    /\ report.status = PyStr(NA)

\* C7: in a rendered record each of name, function, args, alert, message,
\* error and status is a key if and only if its value is non-empty, and then
\* holds that value; nothing else but duration is a key.
C7_OmissionRule ==
    (Rendered /\ clean) =>
        /\ Has(report, "name") <=> name # ""
        /\ Has(report, "name") => report.name = PyStr(name)
        /\ Has(report, "function") <=> function # ""
        /\ Has(report, "function") => report.function = PyStr(function)
        /\ Has(report, "args") <=> DOMAIN args # {}
        /\ Has(report, "args") => report.args = PyDict(args)
        /\ Has(report, "alert") <=> Str(call.alert) # ""
        /\ Has(report, "alert") => report.alert = PyStr(Str(call.alert))
        /\ Has(report, "message") <=> Str(call.err_msg) # ""
        /\ Has(report, "message") => report.message = PyStr(Str(call.err_msg))
        /\ Has(report, "error") <=> Truthy(call.err_msg)
        /\ Has(report, "error") => report.error = PyStr(FormatExc(ctx))
        /\ Has(report, "status")
        /\ DOMAIN report \subseteq TopLevelFields \cup {"duration"}

C7_Witness ==
    /\ Rendered /\ clean
    /\ name = "" /\ ~Has(report, "name")
    /\ DOMAIN assigned # {} /\ ~Has(report, "args")
    /\ Has(report, "alert")
    /\ ~Has(report, "message") /\ ~Has(report, "error")

\* C8: in a rendered record the error field is present only when the message
\* field is present.
C8_ErrorOnlyWithMessage ==
    Rendered => (Has(report, "error") => Has(report, "message"))

\* C9: a json_report that repeats the call before it (same err_msg, alert and
\* status, same exception context) with no assignment in between returns a
\* record that agrees with the earlier one on every field but duration.
C9_RepeatedRenderSameShape ==
    [][repeated' => \A f \in TopLevelFields : SameField(report, report', f)]_vars

C9_Witness ==
    /\ repeated
    /\ Has(report, "args") /\ Has(report, "message") /\ Has(report, "duration")
    /\ DOMAIN assigned = {"bucket_name", "note"}
    /\ DOMAIN report.args.d = {"note"}

FalsyValues == {PyStr(""), PyInt(0), PyNone}

\* C10: the args of a rendered record are exactly the entries assigned before
\* the render whose values are truthy, with their values; the entries with
\* empty or falsy values are dropped; a key that is no parameter of the
\* function string is kept like any other, and the function string is the one
\* set at construction.
C10_ArgsAreTruthyAssignments ==
    (Rendered /\ clean) =>
        LET shown == IF Has(report, "args") THEN report.args.d ELSE <<>>
            truthy == {k \in DOMAIN assigned : assigned[k] \notin FalsyValues}
        IN  /\ DOMAIN shown = truthy
            /\ \A k \in truthy : shown[k] = assigned[k]
            /\ function = FunctionOf(select_object_content)

C10_Witness ==
    /\ Rendered /\ clean
    /\ Has(report, "args")
    /\ DOMAIN report.args.d = {"note"}
    /\ \A i \in DOMAIN ArgsList(select_object_content) :
          ArgsList(select_object_content)[i] # "note"
    /\ assigned["note"] = PyStr("19 cases")
    /\ "bucket_name" \in DOMAIN assigned

\* C24 (as stated): every rendered record has a duration key; its value is
\* the rounded time between construction and the render, which is at most the
\* rounded time between construction and now.
C24_DurationPresentSinceConstruction ==
    Rendered =>
        /\ Has(report, "duration")
        /\ report.duration.t = "int"
        /\ report.duration.n >= 0
        /\ report.duration.n <= Duration(now, start_time)

\* C22: right after its construction a LogOutput has status PASS, no args, no
\* message and no error, the name 's3select:' followed by the test name given
\* and the function string of the method without its receiver; a json_report
\* with no arguments at that point yields a record with status PASS and
\* without args, alert, message and error.
C22_StateAfterConstruction ==
    /\ (reporter # Unbound /\ renders = <<>> /\ ~touched) =>
          /\ reporter.status = PASS
          /\ reporter.args = <<>>
          /\ ~Truthy(reporter.message)
          /\ ~Truthy(reporter.error)
          /\ reporter.name = "s3select:" \o given
          /\ reporter.function = "select_object_content(bucket_name, object_name, request)"
    /\ (renders # <<>> /\ renders[1].fresh /\ renders[1].err_msg = PyStr("")) =>
          /\ Has(renders[1].rec, "status")
          /\ renders[1].rec.status = PyStr(PASS)
          /\ \A f \in {"args", "alert", "message", "error"} : ~Has(renders[1].rec, f)
          /\ renders[1].rec.name = PyStr("s3select:" \o given)

\* the new object was rendered at once, without arguments
C22_Witness ==
    /\ Len(renders) = 1
    /\ renders[1].fresh
    /\ renders[1].err_msg = PyStr("")
    /\ renders[1].rec.status = PyStr(PASS)
    /\ reporter.function = "select_object_content(bucket_name, object_name, request)"

\* C29: a json_report changes no attribute of the object but args, from which
\* it drops the falsy entries and nothing else (name, function, start time,
\* status, message, error and alert stay as they were); a json_report without
\* an error message yields status PASS and neither message nor error,
\* whatever was rendered before it.
C29_RenderKeepsStoredState ==
    [][Len(renders') = Len(renders) + 1 =>
        LET last == renders'[Len(renders')]
        IN  /\ \A f \in DOMAIN reporter \ {"args"} : reporter'[f] = reporter[f]
            /\ DOMAIN reporter' = DOMAIN reporter
            /\ DOMAIN reporter'.args = {k \in DOMAIN reporter.args : Truthy(reporter.args[k])}
            /\ \A k \in DOMAIN reporter'.args : reporter'.args[k] = reporter.args[k]
            /\ last.err_msg = PyStr("") =>
                  /\ last.rec.status = PyStr(PASS)
                  /\ ~Has(last.rec, "message")
                  /\ ~Has(last.rec, "error")]_vars

\* a FAIL record, then a PASS record of the same object; a falsy entry was
\* dropped from args and a truthy one kept
C29_Witness ==
    /\ Len(renders) >= 2
    /\ renders[1].rec.status = PyStr(FAIL)
    /\ Has(renders[1].rec, "message")
    /\ renders[2].rec.status = PyStr(PASS)
    /\ ~Has(renders[2].rec, "message")
    /\ touched
    /\ DOMAIN reporter.args = {"note"}
    /\ Has(renders[1].rec, "args")
    /\ renders[2].rec.args = renders[1].rec.args

\* ------------------------------------------------------- claims on main()
RecordsBy(id) == {i \in DOMAIN printed : printed[i].by = id}
LastPrinted == printed[Len(printed)]
IsPass(rec) == Has(rec, "status") /\ rec.status = PyStr(PASS)
IsFail(rec) == Has(rec, "status") /\ rec.status = PyStr(FAIL)
RecordOf(rec, i) == Has(rec, "name") /\ rec.name = PyStr(NameOf(TestList[i]))
Exited == mpc = "exited"

\* C11: main() calls the tests in the listed order, each only after every
\* earlier one printed its PASS record; once a test has raised no later test
\* is called, and the run ends with exit status 1 after printing the record
\* of the current reporter, which names the failing test, has status FAIL and
\* carries the error trace.
C11_FirstFailureEndsRun ==
    /\ \A i \in DOMAIN started : started[i] = i
    /\ \A j \in 1..(Len(started) - 1) :
          /\ j \in DOMAIN printed
          /\ RecordOf(printed[j].rec, j)
          /\ IsPass(printed[j].rec)
    /\ failed # 0 => Len(started) = failed
    /\ (Exited /\ failed # 0) =>
          /\ exit_status = 1
          /\ Len(printed) = failed
          /\ LastPrinted.by = log_output.id
          /\ RecordOf(LastPrinted.rec, failed)
          /\ IsFail(LastPrinted.rec)
          /\ Has(LastPrinted.rec, "error")

\* the third test raises an exception without a message
C11_Witness ==
    /\ Exited
    /\ failed = 3
    /\ caught = PyExc("")
    /\ Len(printed) = 3

\* C12 (as stated): a run that failed never ends without a FAIL record as the
\* last thing printed.
C12_FailingRunEndsWithFailRecord ==
    (Exited /\ exit_status = 1) => (printed # <<>> /\ IsFail(LastPrinted.rec))

\* C13: no LogOutput is rendered twice; when the run has ended every LogOutput
\* constructed was rendered exactly once; the record the handler prints comes
\* from the reporter constructed for the test that raised, which printed
\* nothing before.
C13_EachReporterRenderedOnce ==
    /\ \A id \in 1..constructed : Cardinality(RecordsBy(id)) <= 1
    /\ Exited => \A id \in 1..constructed : Cardinality(RecordsBy(id)) = 1
    /\ (Exited /\ failed # 0) =>
          /\ LastPrinted.by = failed
          /\ RecordOf(LastPrinted.rec, failed)
          /\ RecordsBy(failed) = {Len(printed)}

\* the second test raises after the first printed its record
C13_Witness ==
    /\ Exited
    /\ failed = 2
    /\ Len(printed) = 2
    /\ IsPass(printed[1].rec)
    /\ IsFail(printed[2].rec)


\* ------------------------------------------- claims on functional_test.py
SuiteEnded == spc = "done"
AtExitOf(fns) == spc = "fn_exit" /\ CurrentFn \in fns
PutTests == {"put_small_object_from_stream_test", "put_large_object_from_stream_test",
             "put_small_object_from_file_test", "put_large_object_from_file_test"}
MakeBucketTests == {"make_bucket_test", "make_bucket_test2"}

\* C14 (as stated): in every variant, when the body of a test function raised
\* an exception the function has no accepting clause for, the run ends as
\* failed.
C14_FailureNeverMasked ==
    (SuiteEnded /\ body_raised) => run_outcome = "failed"

\* C15 (as stated): in the Apps and apps variants copy_object_with_conditions_test
\* returns normally when copy_object raised PreconditionFailed with the exact
\* message, and raises when it raised PreconditionFailed with another message.
C15_OnlyExactMessageAccepted ==
    (AtExitOf({"copy_object_with_conditions_test"}) /\ op_exc.type = "PreconditionFailed") =>
        (fn_outcome = "returned" <=> op_exc.message = ExactMsg)

\* C16 (as stated): copy_object_with_conditions_test returns normally only
\* when the conditional copy raised PreconditionFailed, never when the copy
\* went through.
C16_PassesOnlyWhenCopyFails ==
    (AtExitOf({"copy_object_with_conditions_test"}) /\ fn_outcome = "returned") =>
        op_exc.type = "PreconditionFailed"

\* C17 (as stated): when a function of the suite exits, by return or by
\* exception, none of the local files it created exists.
C17_FixtureFilesRemoved ==
    spc = "fn_exit" => created \cap files = {}

\* C18 (as stated): when run_tests has exited, the bucket setup made and the
\* objects under it are gone.
C18_CleanupOnEveryExit ==
    SuiteEnded => (~bucket /\ stored = {})

\* C19 (as stated): in every variant, a put test whose object was stored with
\* a size other than the payload's does not return normally.
C19_PutTestsFailOnSizeMismatch ==
    (AtExitOf(PutTests) /\ ~stored_ok) => fn_outcome = "raised"

\* C20 (as stated): in the Apps and apps variants, on either endpoint branch,
\* make_bucket_test and make_bucket_test2 return normally when make_bucket
\* raised BucketAlreadyOwnedByYou.
C20_AlreadyOwnedIsSuccess ==
    (AtExitOf(MakeBucketTests) /\ variant \in {"Apps", "apps"}
        /\ op_exc = BucketAlreadyOwnedByYou) => fn_outcome = "returned"

\* nothing the run made is left on the server
NothingLeft == ~bucket /\ stored = {} /\ others = {}

\* teardown returned to run_tests, which then returned
TeardownReturned == run_outcome = "ok" /\ ti > Len(FullRun)

====
